---- MODULE Spec2Model ----
(***************************************************************************)
(* A model of the contact repository of phonebook_server: the record      *)
(* store of app/crud.py (sequential ids, duplicate-email checks, partial  *)
(* updates, deletes, filtered listing) and the bulk upsert of             *)
(* migrate_contacts.py, over a MongoDB collection keyed by _id.           *)
(*                                                                         *)
(* Strings are tuples of one-character strings, so that parsing, padding, *)
(* ordering and regular-expression matching are computed character by     *)
(* character.  Python's None, True and False are the one-element tuples   *)
(* <<"None">>, <<"True">> and <<"False">>, which no string of the         *)
(* alphabet equals, and a list is a tuple of values.  A document is a     *)
(* function from the field names it carries to their values: a field a    *)
(* document does not carry is outside its DOMAIN.                          *)
(***************************************************************************)
EXTENDS Integers, Sequences, FiniteSets, TLC

VARIABLES contacts, now, last, pc, loc

vars == <<contacts, now, last, pc, loc>>

----------------------------------------------------------------------------
(* Characters and strings *)

\* The characters of the model, in code point order.
Alphabet ==
    <<" ", ",", ".", "0", "1", "2", "3", "4", "5", "6", "7", "8", "9",
      "A", "B", "E", "N", "a", "b", "e", "g", "h", "i", "l", "n", "o", "s">>

Chars == {Alphabet[i] : i \in 1..Len(Alphabet)}

Digits == {"0", "1", "2", "3", "4", "5", "6", "7", "8", "9"}

\* The code point order of a character (its position in Alphabet).
Ord(c) == CHOOSE i \in 1..Len(Alphabet) : Alphabet[i] = c

None == <<"None">>

PyTrue == <<"True">>

PyFalse == <<"False">>

PyBool(b) == IF b THEN PyTrue ELSE PyFalse

DigitVal(c) == Ord(c) - Ord("0")

DigitChar(d) == Alphabet[Ord("0") + d]

\* str.strip(): leading and trailing blanks removed.
RECURSIVE LStrip(_)
LStrip(s) ==
    IF s # <<>> /\ Head(s) = " " THEN LStrip(Tail(s)) ELSE s

RECURSIVE RStrip(_)
RStrip(s) ==
    IF s # <<>> /\ s[Len(s)] = " " THEN RStrip(SubSeq(s, 1, Len(s) - 1)) ELSE s

Strip(s) == RStrip(LStrip(s))

\* int(s) raises ValueError unless s, blanks stripped, is a non-empty run of
\* digits (signs and underscores are outside the alphabet).
IsInt(s) ==
    /\ Strip(s) # <<>>
    /\ \A i \in 1..Len(Strip(s)) : Strip(s)[i] \in Digits

RECURSIVE DigitsVal(_)
DigitsVal(s) ==
    IF s = <<>> THEN 0
    ELSE 10 * DigitsVal(SubSeq(s, 1, Len(s) - 1)) + DigitVal(s[Len(s)])

\* int(s), for IsInt(s).
ParseInt(s) == DigitsVal(Strip(s))

RECURSIVE Decimal(_)
Decimal(n) ==
    IF n < 10 THEN <<DigitChar(n)>>
    ELSE Append(Decimal(n \div 10), DigitChar(n % 10))

RECURSIVE ZeroPad(_, _)
ZeroPad(s, w) == IF Len(s) >= w THEN s ELSE ZeroPad(<<"0">> \o s, w)

\* The width of the format f"{n:04d}".
IdWidth == 4

\* f"{n:04d}" for n >= 0: at least four digits, zero-padded on the left.
Format04d(n) == ZeroPad(Decimal(n), IdWidth)

\* The order of MongoDB's default (binary) collation on strings: code point
\* by code point, a proper prefix before its extensions.
RECURSIVE StrLess(_, _)
StrLess(s, t) ==
    IF t = <<>> THEN FALSE
    ELSE IF s = <<>> THEN TRUE
    ELSE IF Head(s) # Head(t) THEN Ord(Head(s)) < Ord(Head(t))
    ELSE StrLess(Tail(s), Tail(t))

StrLeq(s, t) == s = t \/ StrLess(s, t)

----------------------------------------------------------------------------
(* Documents and the collection *)

\* The fields of ContactBase, which ContactCreate.model_dump() always dumps.
BaseFields ==
    {"name", "extension", "company", "department", "designation", "mobile",
     "landline", "email", "website", "languages", "comments", "tags",
     "expose", "is_ert", "is_third_party", "is_ifa", "profile_picture"}

\* A ContactCreate holding only a name, an email and an is_ert flag: every
\* other field has its declared default.
ContactCreate(name, email, is_ert) ==
    [name |-> name, extension |-> None, company |-> None,
     department |-> None, designation |-> None, mobile |-> None,
     landline |-> None, email |-> email, website |-> None,
     languages |-> <<>>, comments |-> None, tags |-> <<>>,
     expose |-> PyTrue, is_ert |-> is_ert, is_third_party |-> PyFalse,
     is_ifa |-> PyFalse, profile_picture |-> None]

\* Python truthiness of an Optional[str] or Optional[bool]: not None, not ""
\* and not False.
Truthy(v) == v # None /\ v # <<>> /\ v # PyFalse

\* d with the fields of u set to u's values: MongoDB's $set, and
\* {**d, **u} in Python.
SetFields(d, u) ==
    [f \in (DOMAIN d) \cup (DOMAIN u) |-> IF f \in DOMAIN u THEN u[f] ELSE d[f]]

\* The _ids of the documents of collection c matching {"email": e}.
FindByEmail(c, e) ==
    {i \in DOMAIN c : "email" \in DOMAIN c[i] /\ c[i].email = e}

\* find_one(sort=[("_id", -1)]): the greatest _id in string order.
LastId(c) == CHOOSE i \in DOMAIN c : \A j \in DOMAIN c : StrLeq(j, i)

\* A fallback that takes the count itself as the next id.
NextIdFromCount(c, cnt) ==
    IF DOMAIN c = {} THEN <<"0", "0", "0", "1">>
    ELSE IF IsInt(LastId(c)) THEN Format04d(ParseInt(LastId(c)) + 1)
    ELSE Format04d(cnt)

\* get_next_contact_id() on collection c.  The count_documents of the
\* fallback reads the same collection when the function runs in one step.
NextIdFrom(c, cnt) ==
    IF DOMAIN c = {} THEN <<"0", "0", "0", "1">>
    ELSE IF IsInt(LastId(c)) THEN Format04d(ParseInt(LastId(c)) + 1)
    ELSE Format04d(cnt + 1)

get_next_contact_id(c) == NextIdFrom(c, Cardinality(DOMAIN c))

\* The collection with document d stored under _id i.
Put(c, i, d) ==
    [j \in (DOMAIN c) \cup {i} |-> IF j = i THEN d ELSE c[j]]

\* The collection without _id i.
Remove(c, i) == [j \in (DOMAIN c) \ {i} |-> c[j]]

\* A collection whose _id index refuses nothing.
InsertAllowedNoUniqueKey(c, i) == TRUE

\* insert_one: the _id index is unique, so a stored _id is refused with a
\* DuplicateKeyError and the collection is left as it is.
InsertAllowed(c, i) == i \notin DOMAIN c

insert_one(c, i, d) == IF InsertAllowed(c, i) THEN Put(c, i, d) ELSE c

\* What Contact(id=..., **document) carries.
AsContact(i, d) == SetFields(d, [id |-> i])

\* Whether Contact(id=..., **document) validates: name is a string of at
\* least one character, languages and tags are lists, the flags are
\* booleans, the timestamps are there; a field the document lacks takes its
\* default, and an optional string may be None.
ContactValidates(d) ==
    /\ "name" \in DOMAIN d
    /\ d.name # None
    /\ Len(d.name) >= 1
    /\ \A f \in {"languages", "tags"} \cap DOMAIN d : d[f] # None
    /\ \A f \in {"expose", "is_ert", "is_third_party", "is_ifa"} \cap DOMAIN d :
           d[f] \in {PyTrue, PyFalse}
    /\ {"created_at", "updated_at"} \subseteq DOMAIN d

\* The document create_contact writes at time t.
NewDocument(contact, t) ==
    SetFields(contact, [created_at |-> t, updated_at |-> t])

\* The duplicate-email lookup of create_contact.
CreateEmailTaken(c, contact) ==
    Truthy(contact.email) /\ FindByEmail(c, contact.email) # {}

\* create_contact(contact) on collection c at time t: the outcome, the id
\* computed (none when the email check raises first), the contact returned.
CreateOutcome(c, contact) ==
    IF CreateEmailTaken(c, contact) THEN "DuplicateEmail"
    ELSE IF InsertAllowed(c, get_next_contact_id(c)) THEN "ok"
    ELSE "DuplicateKeyError"

CreateResult(c, contact, t) ==
    IF CreateOutcome(c, contact) = "DuplicateEmail" THEN c
    ELSE insert_one(c, get_next_contact_id(c), NewDocument(contact, t))

\* get_contact(contact_id): None when no document has that _id.
get_contact(c, i) ==
    IF i \in DOMAIN c THEN AsContact(i, c[i]) ELSE None

\* The duplicate-email lookup of update_contact: a document with that email
\* and another _id.
UpdateEmailTaken(c, i, u) ==
    /\ "email" \in DOMAIN u
    /\ Truthy(u.email)
    /\ FindByEmail(c, u.email) \ {i} # {}

\* The $set document of a dump without exclude_unset: every field of
\* ContactUpdate, None where it was not set.
UpdateDictAllFields(u, t) ==
    SetFields(SetFields([f \in BaseFields |-> None], u), [updated_at |-> t])

\* The $set document of update_contact: the fields set on the ContactUpdate
\* (model_dump(exclude_unset=True)) and updated_at.
UpdateDict(u, t) == SetFields(u, [updated_at |-> t])

\* update_one({"_id": i}, {"$set": s}): no upsert, so nothing is written
\* when no document has that _id.
update_one(c, i, s) ==
    IF i \in DOMAIN c THEN Put(c, i, SetFields(c[i], s)) ELSE c

\* update_contact(i, u) on collection c: how the call ends. The write is
\* made before the Contact to return is built from the re-read document,
\* whose validation may fail.
UpdateOutcome(c, i, u) ==
    IF i \notin DOMAIN c THEN "NotFound"
    ELSE IF UpdateEmailTaken(c, i, u) THEN "DuplicateEmail"
    ELSE IF ContactValidates(SetFields(c[i], u)) THEN "ok"
    ELSE "ValidationError"

UpdateResult(c, i, u, t) ==
    IF UpdateOutcome(c, i, u) \in {"ok", "ValidationError"}
    THEN update_one(c, i, UpdateDict(u, t))
    ELSE c

\* delete_one({"_id": i}).
delete_one(c, i) == IF i \in DOMAIN c THEN Remove(c, i) ELSE c

\* A count that reports the acknowledgement instead of the deletion.
DeletedCountAcknowledged(c, i) == 1

\* delete_contact(contact_id): deleted_count > 0.
DeletedCount(c, i) == IF i \in DOMAIN c THEN 1 ELSE 0

----------------------------------------------------------------------------
(* The migration: migrate_contacts.py *)

\* JSON values of a legacy source, tagged with their Python type.
JStr(s) == [t |-> "str", v |-> s]

JInt(n) == [t |-> "int", v |-> n]

JBool(b) == [t |-> "bool", v |-> PyBool(b)]

JList(l) == [t |-> "list", v |-> l]

JObj(r) == [t |-> "dict", v |-> r]

JNull == [t |-> "NoneType"]

\* dict.get(k, default) on a legacy object's fields.
Get(o, k, default) == IF k \in DOMAIN o THEN o[k] ELSE default

\* str(value), for the values of the model: a str, a non-negative int, None.
PyStr(j) ==
    IF j.t = "str" THEN j.v
    ELSE IF j.t = "int" THEN Decimal(j.v)
    ELSE <<"N", "o", "n", "e">>

\* value.split(','): the segments between commas.
RECURSIVE SplitComma(_, _)
SplitComma(s, cur) ==
    IF s = <<>> THEN <<cur>>
    ELSE IF Head(s) = "," THEN <<cur>> \o SplitComma(Tail(s), <<>>)
    ELSE SplitComma(Tail(s), Append(cur, Head(s)))

\* [item.strip() for item in segments if item.strip()]
RECURSIVE StripNonEmpty(_)
StripNonEmpty(segs) ==
    IF segs = <<>> THEN <<>>
    ELSE IF Strip(Head(segs)) = <<>> THEN StripNonEmpty(Tail(segs))
    ELSE <<Strip(Head(segs))>> \o StripNonEmpty(Tail(segs))

\* A conversion that splits at the commas and keeps the segments as they are.
to_arrayUntrimmed(j) ==
    IF j.t = "NoneType" \/ (j.t = "str" /\ j.v = <<>>) THEN <<>>
    ELSE IF j.t = "list" THEN j.v
    ELSE IF j.t = "str" THEN SplitComma(j.v, <<>>)
    ELSE <<>>

\* transform_contact.to_array
to_array(j) ==
    IF j.t = "NoneType" \/ (j.t = "str" /\ j.v = <<>>) THEN <<>>
    ELSE IF j.t = "list" THEN j.v
    ELSE IF j.t = "str" THEN StripNonEmpty(SplitComma(j.v, <<>>))
    ELSE <<>>

\* transform_contact.to_optional
to_optional(j) ==
    IF j.t = "NoneType" \/ (j.t = "str" /\ (j.v = <<>> \/ j.v = <<"n", "u", "l", "l">>))
    THEN None
    ELSE PyStr(j)

\* transform_contact raises when the entry is no dict (it has no .get) or
\* when its name is no str (it has no .strip).
TransformRaises(e) ==
    \/ e.t # "dict"
    \/ Get(e.v, "name", JStr(<<>>)).t # "str"

\* The except clause of the transform loop calls contact.get itself, which
\* raises again, out of migrate_contacts, when the entry is no dict.
HandlerRaises(e) == e.t # "dict"

\* The _id of the transformed entry.
TransformId(e) == PyStr(Get(e.v, "id", JStr(<<>>)))

\* is_ert is carried as the legacy value, uninterpreted.
TransformIsErt(e) ==
    IF "is_ert" \in DOMAIN e.v
    THEN (IF e.v.is_ert.t = "NoneType" THEN None ELSE e.v.is_ert.v)
    ELSE PyFalse

\* A transform whose record carries is_ifa, with the default of the model.
transform_contactWithFlag(e, t) ==
    [name |-> Strip(Get(e.v, "name", JStr(<<>>)).v),
     extension |-> to_optional(Get(e.v, "extension", JNull)),
     company |-> to_optional(Get(e.v, "company", JNull)),
     department |-> to_optional(Get(e.v, "department", JNull)),
     designation |-> to_optional(Get(e.v, "designation", JNull)),
     mobile |-> to_optional(Get(e.v, "mobile", JNull)),
     landline |-> to_optional(Get(e.v, "landline", JNull)),
     email |-> to_optional(Get(e.v, "email", JNull)),
     website |-> to_optional(Get(e.v, "website", JNull)),
     comments |-> to_optional(Get(e.v, "comments", JNull)),
     expose |-> PyTrue,
     languages |-> to_array(Get(e.v, "languages", JNull)),
     tags |-> to_array(Get(e.v, "tags", JNull)),
     is_ert |-> TransformIsErt(e),
     is_ifa |-> PyFalse,
     created_at |-> t,
     updated_at |-> t]

\* transform_contact(old_contact) at time t, without its _id.
transform_contact(e, t) ==
    [name |-> Strip(Get(e.v, "name", JStr(<<>>)).v),
     extension |-> to_optional(Get(e.v, "extension", JNull)),
     company |-> to_optional(Get(e.v, "company", JNull)),
     department |-> to_optional(Get(e.v, "department", JNull)),
     designation |-> to_optional(Get(e.v, "designation", JNull)),
     mobile |-> to_optional(Get(e.v, "mobile", JNull)),
     landline |-> to_optional(Get(e.v, "landline", JNull)),
     email |-> to_optional(Get(e.v, "email", JNull)),
     website |-> to_optional(Get(e.v, "website", JNull)),
     comments |-> to_optional(Get(e.v, "comments", JNull)),
     expose |-> PyTrue,
     languages |-> to_array(Get(e.v, "languages", JNull)),
     tags |-> to_array(Get(e.v, "tags", JNull)),
     is_ert |-> TransformIsErt(e),
     created_at |-> t,
     updated_at |-> t]

\* The entries the transform loop keeps, in order, as <<_id, document>>.
RECURSIVE Transformed(_, _)
Transformed(batch, t) ==
    IF batch = <<>> THEN <<>>
    ELSE IF TransformRaises(Head(batch)) THEN Transformed(Tail(batch), t)
    ELSE <<<<TransformId(Head(batch)), transform_contact(Head(batch), t)>>>>
         \o Transformed(Tail(batch), t)

\* The number of entries the transform loop counts as errors.
RECURSIVE TransformErrors(_)
TransformErrors(batch) ==
    IF batch = <<>> THEN 0
    ELSE (IF TransformRaises(Head(batch)) THEN 1 ELSE 0)
         + TransformErrors(Tail(batch))

\* d without field f.
Without(d, f) == [g \in (DOMAIN d) \ {f} |-> d[g]]

\* An upsert whose $set carries created_at with the other fields.
UpsertOneAllFields(c, i, d, skip) ==
    IF i \notin DOMAIN c THEN Put(c, i, d)
    ELSE IF skip THEN c
    ELSE Put(c, i, SetFields(c[i], d))

\* One UpdateOne({'_id': i}, ..., upsert=True) of the bulk write on
\* collection c: with skip_duplicates {$setOnInsert: contact}, otherwise
\* {$set: contact without created_at, $setOnInsert: {created_at}}.
UpsertOne(c, i, d, skip) ==
    IF i \notin DOMAIN c THEN Put(c, i, d)
    ELSE IF skip THEN c
    ELSE Put(c, i, SetFields(c[i], Without(d, "created_at")))

\* bulk_write(operations): the operations applied one after the other, in
\* the order given; r is <<collection, nUpserted, nModified>>.
RECURSIVE BulkWrite(_, _, _)
BulkWrite(r, ops, skip) ==
    IF ops = <<>> THEN r
    ELSE LET i == Head(ops)[1]
             d == Head(ops)[2]
             c2 == UpsertOne(r[1], i, d, skip)
         IN BulkWrite(
                <<c2,
                  r[2] + (IF i \notin DOMAIN r[1] THEN 1 ELSE 0),
                  r[3] + (IF i \in DOMAIN r[1] /\ c2 # r[1] THEN 1 ELSE 0)>>,
                Tail(ops), skip)

\* What the server does to a bulk write of n operations: it applies them
\* all, rejects those at the positions failed with a write error (the call
\* then raises BulkWriteError), or the call fails as a whole (outage).
NoFault == [outage |-> FALSE, failed |-> {}]

Faults(n) ==
    {NoFault, [outage |-> TRUE, failed |-> {}]}
        \cup {[outage |-> FALSE, failed |-> {k}] : k \in 1..n}

\* The operations of ops, from position k on, that the server does not reject.
RECURSIVE Surviving(_, _, _)
Surviving(ops, failed, k) ==
    IF k > Len(ops) THEN <<>>
    ELSE (IF k \in failed THEN <<>> ELSE <<ops[k]>>)
         \o Surviving(ops, failed, k + 1)

\* The statistics migrate_contacts returns. An empty operation list makes
\* bulk_write raise InvalidOperation, which like every exception other than
\* BulkWriteError the last except clause turns into errors = total; the
\* BulkWriteError clause adds the write errors and takes nUpserted and
\* nModified, and leaves skipped as initialised; only the clause of a bulk
\* write that raised nothing computes skipped.
MigrateStats(total, terrors, nops, upserted, modified, fault) ==
    IF nops = 0 \/ fault.outage
    THEN [total |-> total, inserted |-> 0, updated |-> 0, skipped |-> 0,
          errors |-> total]
    ELSE IF fault.failed # {}
    THEN [total |-> total, inserted |-> upserted, updated |-> modified,
          skipped |-> 0,
          errors |-> terrors + Cardinality(fault.failed)]
    ELSE [total |-> total, inserted |-> upserted, updated |-> modified,
          skipped |-> total - upserted - modified - terrors,
          errors |-> terrors]

----------------------------------------------------------------------------
(* Inputs of the model *)

\* The operations of one behaviour: every operation takes one tick of the
\* clock, and the clock stops at MaxTime.
MaxTime == 4

\* The migration runs of one behaviour.
MaxMigrations == 1

E1 == <<"a">>

E2 == <<"b">>

Emails == {None, <<>>, E1, E2}

Candidates == {ContactCreate(<<"a">>, e, PyFalse) : e \in Emails}

\* ContactUpdate payloads, each the record of the fields set on it.
Partials ==
    {[name |-> <<"b">>],
     [email |-> E1],
     [email |-> E2],
     [email |-> None],
     [tags |-> None],
     [is_ert |-> PyTrue, tags |-> <<<<"a">>>>, is_ifa |-> PyTrue,
      expose |-> PyFalse]}

\* An _id no operation of the model stores.
AbsentId == <<"9">>

L1 == JObj([id |-> JStr(<<"1">>), name |-> JStr(<<"a">>), email |-> JStr(E1)])

L1b == JObj([id |-> JInt(1), name |-> JStr(<<"b", " ">>), is_ert |-> JBool(TRUE)])

L3 == JObj([id |-> JStr(<<"0", "0", "0", "3">>), name |-> JStr(<<"a">>),
            email |-> JStr(E1), tags |-> JStr(<<"a", ",", " ", "b">>)])

La == JObj([id |-> JStr(<<"a">>), name |-> JStr(<<"b">>), email |-> JStr(<<>>)])

\* A record whose name is null, and an entry that is no object.
L2 == JObj([id |-> JStr(<<"2">>), name |-> JNull])

L42 == JInt(42)

\* A record under the id the first create assigns.
L0001 == JObj([id |-> JStr(<<"0", "0", "0", "1">>), name |-> JStr(<<"b">>)])

Batches ==
    {<<L1, L3>>, <<L1, L1b>>, <<La>>, <<L2, L3>>, <<L1, L42>>, <<L0001>>,
     <<La, L3>>}

\* The orders in which an unordered bulk write may apply n operations.
Orders(n) ==
    {p \in [1..n -> 1..n] : \A i, j \in 1..n : p[i] = p[j] => i = j}

Reorder(ops, p) == [k \in 1..Len(ops) |-> ops[p[k]]]

----------------------------------------------------------------------------
(* The store served one request at a time *)

Idle == [op |-> "none"]

Init ==
    /\ contacts = <<>>
    /\ now = 1
    /\ last = [op |-> "init", migrations |-> 0, issued |-> <<>>]
    /\ pc = Idle
    /\ loc = Idle

\* crud.create_contact(contact)
CreateContact(contact) ==
    /\ now < MaxTime
    /\ contacts' = CreateResult(contacts, contact, now)
    /\ last' = [op |-> "create", contact |-> contact,
                result |-> CreateOutcome(contacts, contact),
                id |-> get_next_contact_id(contacts),
                before |-> contacts, at |-> now,
                migrations |-> last.migrations,
                issued |-> IF CreateOutcome(contacts, contact) = "ok"
                          THEN Append(last.issued, get_next_contact_id(contacts))
                          ELSE last.issued]
    /\ now' = now + 1
    /\ UNCHANGED <<pc, loc>>

\* crud.update_contact(contact_id, contact_update)
UpdateContact(i, u) ==
    /\ now < MaxTime
    /\ contacts' = UpdateResult(contacts, i, u, now)
    /\ last' = [op |-> "update", id |-> i, partial |-> u,
                result |-> UpdateOutcome(contacts, i, u),
                returned |-> IF UpdateOutcome(contacts, i, u) = "ok"
                             THEN get_contact(UpdateResult(contacts, i, u, now), i)
                             ELSE None,
                before |-> contacts, at |-> now,
                migrations |-> last.migrations, issued |-> last.issued]
    /\ now' = now + 1
    /\ UNCHANGED <<pc, loc>>

\* crud.delete_contact(contact_id)
DeleteContact(i) ==
    /\ now < MaxTime
    /\ contacts' = delete_one(contacts, i)
    /\ last' = [op |-> "delete", id |-> i,
                result |-> DeletedCount(contacts, i) > 0,
                before |-> contacts, at |-> now,
                migrations |-> last.migrations, issued |-> last.issued]
    /\ now' = now + 1
    /\ UNCHANGED <<pc, loc>>

\* The run before this one, when the last operation was a migration.
PreviousRun ==
    IF last.op = "migrate"
    THEN <<[batch |-> last.batch, skip |-> last.skip, fault |-> last.fault,
            result |-> last.result]>>
    ELSE <<>>

\* migrate_contacts(contacts, client, skip_duplicates): the server answers
\* the bulk write with fault and applies the operations it does not reject
\* in order p. A run that raises returns no statistics and writes nothing.
MigrateRun(batch, skip, fault, p) ==
    /\ LET raised == \E k \in 1..Len(batch) : HandlerRaises(batch[k])
           ops == Transformed(batch, now)
           applied == Reorder(Surviving(ops, fault.failed, 1), p)
           r == IF fault.outage THEN <<contacts, 0, 0>>
                ELSE BulkWrite(<<contacts, 0, 0>>, applied, skip)
       IN /\ contacts' = IF raised THEN contacts ELSE r[1]
          /\ last' = [op |-> "migrate", batch |-> batch, skip |-> skip,
                      fault |-> fault,
                      result |-> IF raised THEN "raised" ELSE "ok",
                      stats |-> IF raised THEN None
                                ELSE MigrateStats(Len(batch), TransformErrors(batch),
                                                  Len(ops), r[2], r[3], fault),
                      before |-> contacts, at |-> now,
                      previous |-> PreviousRun,
                      migrations |-> last.migrations + 1,
                      issued |-> last.issued]
    /\ now' = now + 1
    /\ UNCHANGED <<pc, loc>>

\* The runs the script may make of batch: every answer of the server, every
\* order of the operations applied.
MigrateAny(batch, skip) ==
    \E fault \in Faults(Len(Transformed(batch, now))) :
        \E p \in Orders(Len(Surviving(Transformed(batch, now), fault.failed, 1))) :
            MigrateRun(batch, skip, fault, p)

Migrate(batch, skip) ==
    /\ now < MaxTime
    /\ last.migrations < MaxMigrations
    /\ MigrateAny(batch, skip)

Next ==
    \/ \E contact \in Candidates : CreateContact(contact)
    \/ \E i \in (DOMAIN contacts) \cup {AbsentId}, u \in Partials :
           UpdateContact(i, u)
    \/ \E i \in (DOMAIN contacts) \cup {AbsentId} : DeleteContact(i)
    \/ \E batch \in Batches, skip \in BOOLEAN : Migrate(batch, skip)

Spec == Init /\ [][Next]_vars

----------------------------------------------------------------------------
(* The store served concurrently: every await of a store call is a step *)

\* The requests in flight at once.
NumProcs == 2

\* The requests started in one behaviour.
MaxRequests == 3

Procs == 1..NumProcs

ConcCandidates == {ContactCreate(<<"a">>, e, PyFalse) : e \in {None, E1}}

ConcPartials == {[email |-> E1], [name |-> <<"b">>]}

\* The collection a migration of batch leaves, starting from none, at time t.
Migrated(batch, t) == BulkWrite(<<<<>>, 0, 0>>, Transformed(batch, t), FALSE)[1]

\* Requests start on an empty collection or on a migrated one.
InitConc ==
    /\ contacts \in {<<>>, Migrated(<<La>>, 0)}
    /\ now = 1
    /\ last = [op |-> "log", started |-> 0, created |-> <<>>,
               outcomes |-> {}, altered |-> FALSE]
    /\ pc = [p \in Procs |-> "idle"]
    /\ loc = [p \in Procs |-> Idle]

\* A request ends: its outcome is logged and the process is free again.
Finish(p, outcome) ==
    /\ pc' = [pc EXCEPT ![p] = "idle"]
    /\ loc' = [loc EXCEPT ![p] = Idle]
    /\ last' = [last EXCEPT !.outcomes = @ \cup {<<loc[p].op, outcome>>}]

Goto(p, label, l) ==
    /\ pc' = [pc EXCEPT ![p] = label]
    /\ loc' = [loc EXCEPT ![p] = l]

\* create_contact is called: without an email it goes straight to
\* get_next_contact_id.
StartCreate(p, contact) ==
    /\ pc[p] = "idle"
    /\ last.started < MaxRequests
    /\ Goto(p, IF Truthy(contact.email) THEN "create_find_email"
               ELSE "create_find_last",
            [op |-> "create", contact |-> contact])
    /\ last' = [last EXCEPT !.started = @ + 1]
    /\ UNCHANGED <<contacts, now>>

\* await contacts.find_one({"email": contact.email})
CreateFindEmail(p) ==
    /\ pc[p] = "create_find_email"
    /\ IF CreateEmailTaken(contacts, loc[p].contact)
       THEN Finish(p, "DuplicateEmail")
       ELSE Goto(p, "create_find_last", loc[p]) /\ UNCHANGED last
    /\ UNCHANGED <<contacts, now>>

\* await contacts.find_one(sort=[("_id", -1)]) of get_next_contact_id; the
\* id is computed and the clock read unless the count is still to be made.
CreateFindLast(p) ==
    /\ pc[p] = "create_find_last"
    /\ IF DOMAIN contacts # {} /\ ~IsInt(LastId(contacts))
       THEN /\ Goto(p, "create_count", loc[p])
            /\ UNCHANGED now
       ELSE /\ Goto(p, "create_insert",
                    SetFields(loc[p], [id |-> NextIdFrom(contacts, 0), t |-> now]))
            /\ now' = now + 1
    /\ UNCHANGED <<contacts, last>>

\* await contacts.count_documents({}) of get_next_contact_id's fallback.
CreateCount(p) ==
    /\ pc[p] = "create_count"
    /\ Goto(p, "create_insert",
            SetFields(loc[p], [id |-> Format04d(Cardinality(DOMAIN contacts) + 1),
                               t |-> now]))
    /\ now' = now + 1
    /\ UNCHANGED <<contacts, last>>

\* await contacts.insert_one(contact_dict), then the return of the Contact.
CreateInsert(p) ==
    /\ pc[p] = "create_insert"
    /\ contacts' = insert_one(contacts, loc[p].id,
                              NewDocument(loc[p].contact, loc[p].t))
    /\ pc' = [pc EXCEPT ![p] = "idle"]
    /\ loc' = [loc EXCEPT ![p] = Idle]
    /\ last' = [last EXCEPT
                  !.outcomes = @ \cup
                      {<<"create", IF InsertAllowed(contacts, loc[p].id)
                                   THEN "ok" ELSE "DuplicateKeyError">>},
                  !.created = IF InsertAllowed(contacts, loc[p].id)
                              THEN Append(@, loc[p].id) ELSE @,
                  !.altered = @ \/ \E i \in DOMAIN contacts :
                                       contacts'[i] # contacts[i]]
    /\ UNCHANGED now

\* update_contact is called.
StartUpdate(p, i, u) ==
    /\ pc[p] = "idle"
    /\ last.started < MaxRequests
    /\ Goto(p, "update_find", [op |-> "update", id |-> i, partial |-> u])
    /\ last' = [last EXCEPT !.started = @ + 1]
    /\ UNCHANGED <<contacts, now>>

\* await contacts.find_one({"_id": contact_id}); without an email to check
\* the clock is read and update_one is next.
UpdateFind(p) ==
    /\ pc[p] = "update_find"
    /\ IF loc[p].id \notin DOMAIN contacts
       THEN Finish(p, "NotFound") /\ UNCHANGED now
       ELSE IF "email" \in DOMAIN loc[p].partial /\ Truthy(loc[p].partial.email)
       THEN Goto(p, "update_find_duplicate", loc[p]) /\ UNCHANGED <<last, now>>
       ELSE /\ Goto(p, "update_write", SetFields(loc[p], [t |-> now]))
            /\ now' = now + 1
            /\ UNCHANGED last
    /\ UNCHANGED contacts

\* await contacts.find_one({"email": ..., "_id": {"$ne": contact_id}})
UpdateFindDuplicate(p) ==
    /\ pc[p] = "update_find_duplicate"
    /\ IF UpdateEmailTaken(contacts, loc[p].id, loc[p].partial)
       THEN Finish(p, "DuplicateEmail") /\ UNCHANGED now
       ELSE /\ Goto(p, "update_write", SetFields(loc[p], [t |-> now]))
            /\ now' = now + 1
            /\ UNCHANGED last
    /\ UNCHANGED contacts

\* await contacts.update_one({"_id": contact_id}, {"$set": update_dict})
UpdateWrite(p) ==
    /\ pc[p] = "update_write"
    /\ contacts' = update_one(contacts, loc[p].id,
                              UpdateDict(loc[p].partial, loc[p].t))
    /\ Goto(p, "update_read", loc[p])
    /\ UNCHANGED <<now, last>>

\* await contacts.find_one({"_id": contact_id}), then Contact(id=updated["_id"], ...):
\* subscripting None raises TypeError.
UpdateRead(p) ==
    /\ pc[p] = "update_read"
    /\ Finish(p, IF loc[p].id \notin DOMAIN contacts THEN "TypeError"
                 ELSE IF ContactValidates(contacts[loc[p].id]) THEN "ok"
                 ELSE "ValidationError")
    /\ UNCHANGED <<contacts, now>>

NextConc ==
    \/ \E p \in Procs, contact \in ConcCandidates : StartCreate(p, contact)
    \/ \E p \in Procs : CreateFindEmail(p)
    \/ \E p \in Procs : CreateFindLast(p)
    \/ \E p \in Procs : CreateCount(p)
    \/ \E p \in Procs : CreateInsert(p)
    \/ \E p \in Procs, i \in DOMAIN contacts, u \in ConcPartials :
           StartUpdate(p, i, u)
    \/ \E p \in Procs : UpdateFind(p)
    \/ \E p \in Procs : UpdateFindDuplicate(p)
    \/ \E p \in Procs : UpdateWrite(p)
    \/ \E p \in Procs : UpdateRead(p)

SpecConc == InitConc /\ [][NextConc]_vars

----------------------------------------------------------------------------
(* Listing: crud.get_contacts and main.list_contacts *)

\* Case folding of the "i" option.
Lower(ch) ==
    IF ch = "A" THEN "a" ELSE IF ch = "B" THEN "b" ELSE IF ch = "E" THEN "e"
    ELSE IF ch = "N" THEN "n"
    ELSE ch

\* Whether one pattern character matches one text character: of the
\* alphabet only "." is a regular-expression metacharacter, and it matches
\* any character; every other character matches itself, case folded.
RegexCharMatches(pch, tch) == pch = "." \/ Lower(pch) = Lower(tch)

\* {"$regex": pat, "$options": "i"} on a string: the pattern matches
\* somewhere in the text (the match is not anchored).
RegexSearch(pat, text) ==
    \E off \in 0..(Len(text) - Len(pat)) :
        \A k \in 1..Len(pat) : RegexCharMatches(pat[k], text[off + k])

ArrayFields == {"tags", "languages"}

\* The $regex condition on field f of document d: on an array field any
\* element may match; a missing or null field matches nothing.
FieldRegex(d, f, pat) ==
    /\ f \in DOMAIN d
    /\ d[f] # None
    /\ IF f \in ArrayFields
       THEN \E k \in 1..Len(d[f]) : RegexSearch(pat, d[f][k])
       ELSE RegexSearch(pat, d[f])

\* The equality condition {f: v}: the field is there and equals v.
FieldEquals(d, f, v) == f \in DOMAIN d /\ d[f] = v

\* The condition {f: {"$ne": v}}: a missing field matches.
FieldNotEquals(d, f, v) == ~FieldEquals(d, f, v)

\* The condition left under the key "is_third_party" of the query: the
\* exclude_third_party assignment comes last and replaces the explicit one.
ThirdPartyCondition(d, q) ==
    IF Truthy(q.exclude_third_party)
    THEN FieldNotEquals(d, "is_third_party", PyTrue)
    ELSE IF q.is_third_party # None
    THEN FieldEquals(d, "is_third_party", q.is_third_party)
    ELSE TRUE

\* Whether document d matches the query get_contacts builds from q.
Matches(d, q) ==
    /\ Truthy(q.search) =>
           \/ FieldRegex(d, "name", q.search)
           \/ FieldRegex(d, "department", q.search)
           \/ FieldRegex(d, "tags", q.search)
           \/ FieldRegex(d, "designation", q.search)
    /\ Truthy(q.tag) => FieldRegex(d, "tags", q.tag)
    /\ Truthy(q.language) => FieldRegex(d, "languages", q.language)
    /\ q.is_ert # None => FieldEquals(d, "is_ert", q.is_ert)
    /\ q.is_ifa # None => FieldEquals(d, "is_ifa", q.is_ifa)
    /\ ThirdPartyCondition(d, q)

Matching(c, q) == {i \in DOMAIN c : Matches(c[i], q)}

\* The sort field and direction chosen from sort_by.
SortField(sort_by) ==
    IF sort_by = "department" THEN "department"
    ELSE IF sort_by = "extension" THEN "extension"
    ELSE "name"

\* A direction that is ascending for every sort field.
SortDescendingNever(sort_by) == FALSE

SortDescending(sort_by) == sort_by = "extension"

\* MongoDB orders a missing or null field before every string.
SortKey(d, f) ==
    IF f \in DOMAIN d /\ d[f] # None THEN <<1, d[f]>> ELSE <<0, <<>>>>

KeyLeq(a, b) == a[1] < b[1] \/ (a[1] = b[1] /\ StrLeq(a[2], b[2]))

\* Whether ids, a sequence of _ids of c, is in the order of the sort.
InSortOrder(c, ids, sort_by) ==
    \A m, n \in 1..Len(ids) :
        m < n =>
            IF SortDescending(sort_by)
            THEN KeyLeq(SortKey(c[ids[n]], SortField(sort_by)),
                        SortKey(c[ids[m]], SortField(sort_by)))
            ELSE KeyLeq(SortKey(c[ids[m]], SortField(sort_by)),
                        SortKey(c[ids[n]], SortField(sort_by)))

\* The orders the cursor may return the matching documents in: documents
\* with equal sort keys come in any order.
SortedListings(c, q) ==
    {ids \in [1..Cardinality(Matching(c, q)) -> Matching(c, q)] :
        /\ \A m, n \in 1..Len(ids) : ids[m] = ids[n] => m = n
        /\ InSortOrder(c, ids, q.sort_by)}

\* cursor.skip(skip).limit(limit)
SkipLimit(ids, skip, limit) ==
    SubSeq(ids, skip + 1, IF skip + limit < Len(ids) THEN skip + limit ELSE Len(ids))

\* A skip that counts the requested page among the pages passed over.
SkipThroughPage(page, limit) == page * limit

\* skip = (page - 1) * limit
Skip(page, limit) == (page - 1) * limit

\* total_pages = (total + limit - 1) // limit
TotalPages(total, limit) == (total + limit - 1) \div limit

\* sorted(list(values)): the strings of a set in ascending order.
Sorted(values) ==
    CHOOSE seq \in [1..Cardinality(values) -> values] :
        \A m, n \in 1..Cardinality(values) : m < n => StrLess(seq[m], seq[n])

English == <<"E", "n", "g", "l", "i", "s", "h">>

\* The languages of every document that carries a non-empty languages list.
AllLanguages(c) ==
    UNION {{c[i].languages[k] : k \in 1..Len(c[i].languages)} :
              i \in {j \in DOMAIN c : /\ "languages" \in DOMAIN c[j]
                                      /\ Truthy(c[j].languages)}}

\* all_languages.discard("English")
DiscardEnglish(values) == values \ {English}

\* crud.get_all_languages()
get_all_languages(c) == Sorted(DiscardEnglish(AllLanguages(c)))

----------------------------------------------------------------------------
(* Listing over stored collections *)

\* The documents of a listed collection.
MaxQueryDocs == 2

\* The pages asked for.
MaxPage == 2

\* The page sizes asked for.
MaxLimit == 2

\* Documents as create_contact, update_contact and the migration leave
\* them, each under its _id.
QueryCollection ==
    LET id1 == <<"0", "0", "0", "1">>
        id2 == <<"0", "0", "0", "2">>
        id3 == <<"3">>
        id4 == <<"0", "0", "0", "4">>
    IN [i \in {id1, id2, id3, id4} |->
          IF i = id1
          THEN NewDocument(SetFields(ContactCreate(<<"a", "b">>, None, PyFalse),
                                     [extension |-> <<"1">>,
                                      languages |-> <<English, <<"n">>>>]), 1)
          ELSE IF i = id2
          THEN NewDocument(SetFields(ContactCreate(<<"B">>, None, PyTrue),
                                     [department |-> <<"B">>,
                                      tags |-> <<<<"A", "b">>>>,
                                      languages |-> <<<<"e">>>>,
                                      is_third_party |-> PyTrue,
                                      extension |-> <<"2">>]), 1)
          ELSE IF i = id3
          THEN transform_contact(JObj([id |-> JInt(3), name |-> JStr(<<"a">>),
                                       tags |-> JStr(<<"b">>),
                                       languages |-> JStr(<<"e", ",", "n">>)]), 1)
          ELSE NewDocument(SetFields(ContactCreate(<<"B", "a">>, None, PyFalse),
                                     [department |-> <<"a">>,
                                      designation |-> <<"a", "b">>,
                                      languages |-> <<<<"e", "n", "g", "l", "i", "s", "h">>>>,
                                      is_third_party |-> PyTrue,
                                      extension |-> <<"1">>]), 1)]

Restrict(c, ids) == [i \in ids |-> c[i]]

QueryStores ==
    {Restrict(QueryCollection, ids) :
        ids \in {x \in SUBSET DOMAIN QueryCollection : Cardinality(x) <= MaxQueryDocs}}

OptBool == {None, PyTrue, PyFalse}

\* The parameters of list_contacts.
Queries ==
    [search : {None, <<"a", "b">>, <<"a", ".">>},
     tag : {None, <<"b">>},
     language : {None, <<"e">>},
     is_ert : OptBool,
     is_ifa : {None, PyFalse},
     is_third_party : OptBool,
     exclude_third_party : {None, PyTrue},
     sort_by : {"name", "department", "extension", "company"},
     page : 1..MaxPage,
     limit : 1..MaxLimit]

InitQuery ==
    /\ contacts \in QueryStores
    /\ now = 2
    /\ last = [op |-> "init"]
    /\ pc = Idle
    /\ loc = Idle

\* main.list_contacts with parameters q, the cursor returning the matching
\* documents in order ids.
ListContacts(q, ids) ==
    /\ last' = [op |-> "list", q |-> q, listing |-> ids,
                ids |-> SkipLimit(ids, Skip(q.page, q.limit), q.limit),
                contacts |-> [k \in 1..Len(SkipLimit(ids, Skip(q.page, q.limit), q.limit)) |->
                                 AsContact(SkipLimit(ids, Skip(q.page, q.limit), q.limit)[k],
                                           contacts[SkipLimit(ids, Skip(q.page, q.limit), q.limit)[k]])],
                total |-> Cardinality(Matching(contacts, q)),
                total_pages |-> TotalPages(Cardinality(Matching(contacts, q)), q.limit)]
    /\ UNCHANGED <<contacts, now, pc, loc>>

\* main.get_languages
GetLanguages ==
    /\ last' = [op |-> "languages", result |-> get_all_languages(contacts)]
    /\ UNCHANGED <<contacts, now, pc, loc>>

\* A behaviour queries its collection once.
NextQuery ==
    /\ last.op = "init"
    /\ \/ \E q \in Queries :
              \E ids \in SortedListings(contacts, q) : ListContacts(q, ids)
       \/ GetLanguages

SpecQuery == InitQuery /\ [][NextQuery]_vars

----------------------------------------------------------------------------
(* Properties *)

\* The largest numeric value among ids, all of which parse.
MaxNumeric(ids) ==
    CHOOSE n \in {ParseInt(i) : i \in ids} :
        \A m \in {ParseInt(i) : i \in ids} : m <= n

\* C1: a successful create on a store whose ids are all numeric assigns the
\* zero-padded 4-digit string of the largest numeric stored id plus one, and
\* "0001" on the empty store.
C1_IdIsNumericSuccessor ==
    (/\ last.op = "create"
     /\ last.result = "ok"
     /\ \A i \in DOMAIN last.before : IsInt(i))
    => last.id = IF DOMAIN last.before = {} THEN <<"0", "0", "0", "1">>
                 ELSE Format04d(MaxNumeric(DOMAIN last.before) + 1)

\* Whether no two documents of c hold the same non-empty email.
NoSharedEmail(c) ==
    \A i, j \in DOMAIN c :
        (i # j /\ c[i].email # None /\ c[i].email # <<>>)
        => c[i].email # c[j].email

\* C2: with the operations run one after the other, no two stored contacts
\* hold the same non-empty email.
C2_EmailUniqueSequential == last.op # "log" => NoSharedEmail(contacts)

\* Whether some document of c holds email e.
HeldBy(c, e) == {i \in DOMAIN c : c[i].email = e}

\* C3: a create whose non-empty email a stored record holds fails with
\* DuplicateEmail and leaves the store as it was; a create with no email or
\* an empty one succeeds.
C3_CreateEmailRule ==
    last.op = "create" =>
        /\ (last.contact.email \notin {None, <<>>}
            /\ HeldBy(last.before, last.contact.email) # {})
           => (last.result = "DuplicateEmail" /\ contacts = last.before)
        /\ last.contact.email \in {None, <<>>} => last.result = "ok"

\* Whether the update recorded in last sets email to a non-empty value that
\* a record with another id holds.
SetsEmailOfAnother ==
    /\ "email" \in DOMAIN last.partial
    /\ last.partial.email \notin {None, <<>>}
    /\ HeldBy(last.before, last.partial.email) \ {last.id} # {}

\* Whether the update recorded in last sets email to the non-empty value its
\* own record holds.
SetsOwnEmail ==
    /\ "email" \in DOMAIN last.partial
    /\ last.partial.email \notin {None, <<>>}
    /\ last.partial.email = last.before[last.id].email

\* C4: an update of an existing id fails with DuplicateEmail, changing
\* nothing, exactly when it sets email to a non-empty value held by a record
\* with a different id; an update that sets email to the value the record
\* itself holds (and no other record does) succeeds.
C4_UpdateDuplicateEmail ==
    (last.op = "update" /\ last.id \in DOMAIN last.before) =>
        /\ last.result = "DuplicateEmail" <=> SetsEmailOfAnother
        /\ last.result = "DuplicateEmail" => contacts = last.before
        /\ (SetsOwnEmail /\ ~SetsEmailOfAnother) => last.result = "ok"

\* The part of C4 on the duplicate check alone: DuplicateEmail, with the
\* store unchanged, exactly when the email set is held under another id, and
\* never for the record's own email held by no other record.
C4_DuplicateEmailExactly ==
    (last.op = "update" /\ last.id \in DOMAIN last.before) =>
        /\ last.result = "DuplicateEmail" <=> SetsEmailOfAnother
        /\ last.result = "DuplicateEmail" => contacts = last.before
        /\ (SetsOwnEmail /\ ~SetsEmailOfAnother /\ last.result # "ok")
               => ~ContactValidates(contacts[last.id])

\* C5: a successful update sets the fields of the partial and updated_at on
\* the record and leaves its other fields, created_at among them, and every
\* other record as they were.
C5_UpdateFrame ==
    (last.op = "update" /\ last.result = "ok") =>
        /\ DOMAIN contacts = DOMAIN last.before
        /\ \A j \in (DOMAIN contacts) \ {last.id} : contacts[j] = last.before[j]
        /\ DOMAIN contacts[last.id] =
               (DOMAIN last.before[last.id]) \cup (DOMAIN last.partial)
        /\ \A f \in DOMAIN contacts[last.id] :
               contacts[last.id][f] =
                   IF f \in DOMAIN last.partial THEN last.partial[f]
                   ELSE IF f = "updated_at" THEN last.at
                   ELSE last.before[last.id][f]
        /\ last.returned = AsContact(last.id, contacts[last.id])

C5_Witness ==
    /\ last.op = "update"
    /\ last.result = "ok"
    /\ Cardinality(DOMAIN last.before) >= 2
    /\ "name" \in DOMAIN last.partial
    /\ contacts[last.id].name # last.before[last.id].name
    /\ contacts[last.id].email # None

\* C6: a create never ends in the raw write conflict of its first id
\* collision: the colliding write is retried with a fresh id.
C6_CollisionRetried == <<"create", "DuplicateKeyError">> \notin last.outcomes

\* C7: under any interleaving of creates, the ids successful creates return
\* are pairwise different and no insert changes a stored record.
C7_CreatedIdsDistinct ==
    last.op = "log" =>
        /\ \A m, n \in 1..Len(last.created) :
               m # n => last.created[m] # last.created[n]
        /\ ~last.altered
        /\ \A m \in 1..Len(last.created) : last.created[m] \in DOMAIN contacts

C7_Witness ==
    /\ last.op = "log"
    /\ Len(last.created) >= 2
    /\ <<"create", "DuplicateKeyError">> \in last.outcomes

\* C8: under any interleaving of the steps of concurrent creates and
\* updates, no two stored contacts hold the same non-empty email.
C8_EmailUniqueConcurrent == last.op = "log" => NoSharedEmail(contacts)

\* C9: delete returns true exactly when the id was stored; afterwards get
\* finds nothing under the id and every other record is as it was.
C9_Delete ==
    last.op = "delete" =>
        /\ last.result <=> last.id \in DOMAIN last.before
        /\ get_contact(contacts, last.id) = None
        /\ DOMAIN contacts = (DOMAIN last.before) \ {last.id}
        /\ \A j \in DOMAIN contacts : contacts[j] = last.before[j]
        /\ last.id \notin DOMAIN last.before => contacts = last.before

C9_Witness ==
    /\ last.op = "delete"
    /\ last.result
    /\ DOMAIN contacts # {}

\* Whether text contains sub as a substring, letter case ignored.
ContainsIgnoringCase(text, sub) ==
    \E off \in 0..(Len(text) - Len(sub)) :
        \A k \in 1..Len(sub) : Lower(sub[k]) = Lower(text[off + k])

FieldContains(d, f, sub) ==
    /\ f \in DOMAIN d
    /\ d[f] # None
    /\ IF f \in ArrayFields
       THEN \E k \in 1..Len(d[f]) : ContainsIgnoringCase(d[f][k], sub)
       ELSE ContainsIgnoringCase(d[f], sub)

\* Whether document d satisfies every filter supplied in q, as the filters
\* are specified.
Satisfies(d, q) ==
    /\ q.search \notin {None, <<>>} =>
           \E f \in {"name", "department", "tags", "designation"} :
               FieldContains(d, f, q.search)
    /\ q.tag \notin {None, <<>>} => FieldContains(d, "tags", q.tag)
    /\ q.language \notin {None, <<>>} => FieldContains(d, "languages", q.language)
    /\ q.is_ert # None => ("is_ert" \in DOMAIN d /\ d.is_ert = q.is_ert)
    /\ q.is_ifa # None => ("is_ifa" \in DOMAIN d /\ d.is_ifa = q.is_ifa)
    /\ q.is_third_party # None =>
           ("is_third_party" \in DOMAIN d /\ d.is_third_party = q.is_third_party)

\* C10: for any combination of the search, tag, language, is_ert, is_ifa and
\* is_third_party filters, the page holds only records satisfying every
\* supplied filter and total is the number of stored records satisfying
\* them, whatever the page and the page size.
C10_ListFilters ==
    (last.op = "list" /\ last.q.exclude_third_party = None) =>
        /\ \A k \in 1..Len(last.ids) : Satisfies(contacts[last.ids[k]], last.q)
        /\ last.total =
               Cardinality({i \in DOMAIN contacts : Satisfies(contacts[i], last.q)})

\* C11: when list is given both is_third_party = v and exclude_third_party =
\* true, the result is exactly the records whose is_third_party equals v and
\* that are also not third-party (none when v is true): the page holds only
\* such records and total counts them (stated for listings without a search
\* pattern).
C11_ExcludeMasksExplicit ==
    (/\ last.op = "list"
     /\ last.q.search = None
     /\ last.q.is_third_party # None
     /\ last.q.exclude_third_party = PyTrue)
    => /\ \A k \in 1..Len(last.ids) :
              /\ Satisfies(contacts[last.ids[k]], last.q)
              /\ ~FieldEquals(contacts[last.ids[k]], "is_third_party", PyTrue)
       /\ last.total =
              Cardinality({i \in DOMAIN contacts :
                              /\ Satisfies(contacts[i], last.q)
                              /\ ~FieldEquals(contacts[i], "is_third_party", PyTrue)})

\* Whether the page of the last listing is in ascending (descending, when
\* desc) order of field f, a missing or null value coming before every string.
PageOrderedBy(f, desc) ==
    \A m, n \in 1..Len(last.ids) :
        m < n =>
            LET a == SortKey(contacts[last.ids[m]], f)
                b == SortKey(contacts[last.ids[n]], f)
            IN IF desc THEN KeyLeq(b, a) ELSE KeyLeq(a, b)

\* C12: the page returned by list is ordered by department ascending when
\* sort_by is department, by extension descending when sort_by is extension,
\* and by name ascending when sort_by is name or any other value.
C12_PageOrder ==
    last.op = "list" =>
        IF last.q.sort_by = "department" THEN PageOrderedBy("department", FALSE)
        ELSE IF last.q.sort_by = "extension" THEN PageOrderedBy("extension", TRUE)
        ELSE PageOrderedBy("name", FALSE)

C12_Witness ==
    /\ last.op = "list"
    /\ last.q.sort_by = "extension"
    /\ Len(last.ids) = 2
    /\ contacts[last.ids[1]].extension = <<"2">>
    /\ contacts[last.ids[2]].extension = <<"1">>

\* The page size and the page number of the last listing, and the records
\* page p of it holds when read from the same sorted filtered list.
PageSize == last.q.limit

PageOf(p) == SkipLimit(last.listing, Skip(p, PageSize), PageSize)

\* C13: total_pages is ceil(total / pageSize); page p holds exactly the
\* records at positions (p-1)*pageSize .. p*pageSize-1 (counted from 0) of
\* the sorted filtered list; pages 1..total_pages together hold every
\* matching record exactly once, no page holds more than pageSize records,
\* and every page beyond total_pages is empty.
C13_Pagination ==
    last.op = "list" =>
        /\ last.total = Len(last.listing)
        /\ last.total_pages * PageSize >= last.total
        /\ (last.total_pages - 1) * PageSize < last.total
        /\ last.total_pages >= 0
        /\ \A pos \in 0..(last.total - 1) :
               (/\ (last.q.page - 1) * PageSize <= pos
                /\ pos <= last.q.page * PageSize - 1)
               => /\ pos - (last.q.page - 1) * PageSize + 1 \in 1..Len(last.ids)
                  /\ last.ids[pos - (last.q.page - 1) * PageSize + 1]
                         = last.listing[pos + 1]
        /\ \A k \in 1..Len(last.ids) :
               (last.q.page - 1) * PageSize + k - 1 \in 0..(last.total - 1)
        /\ Len(last.ids) <= PageSize
        /\ last.q.page > last.total_pages => last.ids = <<>>
        /\ last.ids = PageOf(last.q.page)
        /\ \A i \in Matching(contacts, last.q) :
               Cardinality({pk \in (1..last.total_pages) \X (1..PageSize) :
                               /\ pk[2] <= Len(PageOf(pk[1]))
                               /\ PageOf(pk[1])[pk[2]] = i}) = 1
        /\ \A p \in 1..(last.total_pages + MaxPage) :
               /\ Len(PageOf(p)) <= PageSize
               /\ p > last.total_pages => PageOf(p) = <<>>

C13_Witness ==
    /\ last.op = "list"
    /\ last.total = 2
    /\ PageSize = 1
    /\ last.q.page = 2
    /\ last.total_pages = 2
    /\ last.ids = <<last.listing[2]>>

\* Whether l is "English" in some letter case.
IsEnglish(l) ==
    /\ Len(l) = Len(English)
    /\ \A k \in 1..Len(l) : Lower(l[k]) = Lower(English[k])

\* The languages of the stored contacts.
StoredLanguages ==
    UNION {{contacts[i].languages[k] : k \in 1..Len(contacts[i].languages)} :
              i \in DOMAIN contacts}

\* C14: distinctLanguages returns the sorted, duplicate-free union of the
\* languages of all contacts with every case variant of "English" removed.
C14_DistinctLanguages ==
    last.op = "languages" =>
        /\ \A m, n \in 1..Len(last.result) :
               m < n => StrLess(last.result[m], last.result[n])
        /\ {last.result[k] : k \in 1..Len(last.result)}
               = {l \in StoredLanguages : ~IsEnglish(l)}

\* Whether v is a sequence of strings, possibly empty.
IsStringList(v) ==
    /\ v # None
    /\ \A k \in 1..Len(v) : v[k] \in Seq(Chars)

\* C15: in every stored record reachable through create, update and
\* migration, languages and tags are each a sequence of strings: never
\* absent, never null, never a comma-delimited string.
C15_ArraysAreStringLists ==
    \A i \in DOMAIN contacts :
        \A f \in ArrayFields :
            /\ f \in DOMAIN contacts[i]
            /\ IsStringList(contacts[i][f])

----------------------------------------------------------------------------
(* transform_contact over legacy records *)

OptionalScalars ==
    {"extension", "company", "department", "designation", "mobile",
     "landline", "email", "website", "comments"}

\* A legacy object with field f absent or holding one of values.
Opt(f, values) == {<<>>} \cup {[x \in {f} |-> v] : v \in values}

LegacyIds == {JStr(<<"4", "2">>), JInt(7), JNull}

LegacyNames == {JStr(<<" ", "a", " ">>), JNull}

LegacyScalars ==
    {JNull, JStr(<<>>), JStr(<<"n", "u", "l", "l">>), JStr(<<"a">>),
     JStr(<<" ">>), JInt(7)}

LegacyArrays ==
    {JNull, JStr(<<>>), JStr(<<" ", "a", " ", ",", ",", "b", " ">>),
     JStr(<<" ", ",">>), JList(<<<<"a", ",", "b">>, <<" ", "b">>>>)}

LegacyExposes == {JStr(<<"a", "l", "l">>), JBool(FALSE)}

\* Legacy records: every field absent or present, one optional scalar at a
\* time taking each kind of value.
LegacyRecords ==
    {JObj(SetFields(SetFields(SetFields(SetFields(SetFields(i, n), sc), l), tg), x)) :
        i \in Opt("id", LegacyIds), n \in Opt("name", LegacyNames),
        sc \in UNION {Opt(f, LegacyScalars) : f \in OptionalScalars},
        l \in Opt("languages", LegacyArrays),
        tg \in Opt("tags", {JStr(<<"a">>), JList(<<>>)}),
        x \in Opt("expose", LegacyExposes)}

InitTransform ==
    /\ contacts = <<>>
    /\ now = 1
    /\ last \in {[op |-> "legacy", record |-> e] : e \in LegacyRecords}
    /\ pc = Idle
    /\ loc = Idle

\* new_contact = transform_contact(contact)
Transform ==
    /\ last.op = "legacy"
    /\ ~TransformRaises(last.record)
    /\ last' = [op |-> "transform", record |-> last.record,
                id |-> TransformId(last.record),
                doc |-> transform_contact(last.record, now)]
    /\ UNCHANGED <<contacts, now, pc, loc>>

\* transform_contact(contact) raises
TransformFails ==
    /\ last.op = "legacy"
    /\ TransformRaises(last.record)
    /\ last' = [op |-> "transform_error", record |-> last.record]
    /\ UNCHANGED <<contacts, now, pc, loc>>

NextTransform == Transform \/ TransformFails

SpecTransform == InitTransform /\ [][NextTransform]_vars

\* The string form of a legacy value.
StringForm(j) == IF j.t = "int" THEN Decimal(j.v) ELSE j.v

\* The trimmed non-empty comma-separated segments of string s.
TrimmedSegments(s) ==
    LET kept == SelectSeq(SplitComma(s, <<>>), LAMBDA seg : Strip(seg) # <<>>)
    IN [k \in 1..Len(kept) |-> Strip(kept[k])]

\* The normalized form of the multi-valued field f of legacy object o.
NormalArray(o, f) ==
    IF f \notin DOMAIN o \/ o[f].t = "NoneType" THEN <<>>
    ELSE IF o[f].t = "list" THEN o[f].v
    ELSE IF o[f].v = <<>> THEN <<>>
    ELSE TrimmedSegments(o[f].v)

\* C16: the normalized record has the string-cast legacy id (the empty
\* string if absent); languages and tags unchanged if already a sequence,
\* the trimmed non-empty comma-separated segments if a string, empty for
\* null, absent and the empty string; every optional scalar absent (None)
\* when the legacy value is absent, null, "" or "null" and its string form
\* otherwise; and expose true whatever the legacy expose.
C16_Normalization ==
    last.op = "transform" =>
        LET o == last.record.v
        IN /\ last.id = IF "id" \notin DOMAIN o THEN <<>>
                        ELSE IF o.id.t = "NoneType" THEN <<"N", "o", "n", "e">>
                        ELSE StringForm(o.id)
           /\ \A f \in ArrayFields : last.doc[f] = NormalArray(o, f)
           /\ \A f \in OptionalScalars :
                  last.doc[f] =
                      IF \/ f \notin DOMAIN o
                         \/ o[f].t = "NoneType"
                         \/ o[f] = JStr(<<>>)
                         \/ o[f] = JStr(<<"n", "u", "l", "l">>)
                      THEN None
                      ELSE StringForm(o[f])
           /\ last.doc.expose = PyTrue

C16_Witness ==
    /\ last.op = "transform"
    /\ "id" \notin DOMAIN last.record.v
    /\ last.id = <<>>
    /\ Get(last.record.v, "languages", JNull)
           = JStr(<<" ", "a", " ", ",", ",", "b", " ">>)
    /\ last.doc.languages = <<<<"a">>, <<"b">>>>
    /\ Get(last.record.v, "email", JNull) = JStr(<<"n", "u", "l", "l">>)
    /\ last.doc.email = None
    /\ Get(last.record.v, "expose", JNull) = JBool(FALSE)

----------------------------------------------------------------------------
(* The migration script run twice in a row *)

InitMigrate ==
    /\ contacts \in {<<>>, Migrated(<<La>>, 0)}
    /\ now = 1
    /\ last = [op |-> "init", migrations |-> 0, issued |-> <<>>]
    /\ pc = Idle
    /\ loc = Idle

\* A behaviour runs the script on a batch, and then once more.
NextMigrate ==
    /\ last.op = "init" \/ (last.op = "migrate" /\ last.previous = <<>>)
    /\ \E batch \in Batches, skip \in BOOLEAN : MigrateAny(batch, skip)

SpecMigrate == InitMigrate /\ [][NextMigrate]_vars

\* The positions of the last batch holding a record that can be normalized:
\* an object whose name is a string or absent.
Normalizable ==
    {k \in 1..Len(last.batch) :
        /\ last.batch[k].t = "dict"
        /\ ("name" \in DOMAIN last.batch[k].v => last.batch[k].v.name.t = "str")}

\* The canonical id of the batch record at position k.
BatchId(k) ==
    IF "id" \in DOMAIN last.batch[k].v THEN PyStr(last.batch[k].v.id) ELSE <<>>

\* C17: a migration run with skip_duplicates, the store answering every
\* write, inserts each batch record whose id is not yet stored and leaves
\* every stored record as it was, updated_at included; the batch records
\* that met a stored id are counted as skipped, none as inserted or updated.
C17_SkipDuplicates ==
    (last.op = "migrate" /\ last.skip /\ last.fault = NoFault) =>
        /\ \A i \in DOMAIN last.before :
               i \in DOMAIN contacts /\ contacts[i] = last.before[i]
        /\ \A k \in Normalizable : BatchId(k) \in DOMAIN contacts
        /\ DOMAIN contacts = DOMAIN last.before \cup {BatchId(k) : k \in Normalizable}
        /\ last.result = "ok"
        /\ last.stats.inserted = Cardinality((DOMAIN contacts) \ (DOMAIN last.before))
        /\ last.stats.updated = 0
        /\ last.stats.skipped >=
               Cardinality({k \in Normalizable : BatchId(k) \in DOMAIN last.before})
        /\ last.stats.inserted + last.stats.skipped = Cardinality(Normalizable)

\* The same statement for the runs that return.
C17_SkipDuplicatesReturning ==
    (last.op = "migrate" /\ last.result = "ok") => C17_SkipDuplicates

\* Whether the last two runs were made in a row on the same input, both
\* without skip_duplicates, the store answering every write of both.
SameInputTwice ==
    /\ last.op = "migrate"
    /\ last.previous # <<>>
    /\ last.previous[1].batch = last.batch
    /\ ~last.skip
    /\ ~last.previous[1].skip
    /\ last.fault = NoFault
    /\ last.previous[1].fault = NoFault

\* C18: running the migration twice in a row on the same input without
\* skip_duplicates is idempotent: after the second run every record has the
\* created_at and the normalized fields the first run left, only updated_at
\* is refreshed, and the second run reports inserted = 0 and updated = total.
C18_Idempotent ==
    SameInputTwice =>
        /\ DOMAIN contacts = DOMAIN last.before
        /\ \A i \in DOMAIN contacts :
               \A f \in (DOMAIN contacts[i]) \ {"updated_at"} :
                   contacts[i][f] = last.before[i][f]
        /\ last.result = "ok"
        /\ last.stats.inserted = 0
        /\ last.stats.updated = last.stats.total

\* The same statement for inputs whose records can all be normalized and
\* have ids of their own.
C18_IdempotentWellFormed ==
    (/\ SameInputTwice
     /\ Normalizable = 1..Len(last.batch)
     /\ \A k, m \in Normalizable : BatchId(k) = BatchId(m) => k = m)
    => C18_Idempotent

\* C19: whatever the outcome of the bulk write (every write answered, some
\* rejected with a write error, the call failing as a whole), in either
\* skip_duplicates mode and with any number of transform failures, the
\* statistics a run returns satisfy inserted + updated + skipped + errors =
\* total, no counter negative.
C19_StatsReconcile ==
    (last.op = "migrate" /\ last.result = "ok") =>
        /\ last.stats.inserted + last.stats.updated + last.stats.skipped
               + last.stats.errors = last.stats.total
        /\ last.stats.total = Len(last.batch)
        /\ last.stats.inserted >= 0
        /\ last.stats.updated >= 0
        /\ last.stats.skipped >= 0
        /\ last.stats.errors >= 0

\* The same statement for the runs whose bulk write raises no BulkWriteError.
C19_StatsReconcileNoWriteError ==
    (last.op = "migrate" /\ last.fault.failed = {}) => C19_StatsReconcile

\* C20: a legacy record that cannot be normalized, whatever the
\* malformation, is counted exactly once in errors and does not abort the
\* run: every other record of the batch is still normalized and written
\* (the store answering every write).
C20_MalformedIsLocal ==
    (/\ last.op = "migrate"
     /\ last.fault = NoFault
     /\ Normalizable # 1..Len(last.batch))
    => /\ last.result = "ok"
       /\ last.stats.errors = Len(last.batch) - Cardinality(Normalizable)
       /\ \A k \in Normalizable : BatchId(k) \in DOMAIN contacts

\* The same statement for batches whose entries are all objects.
C20_MalformedObjectIsLocal ==
    (last.op = "migrate" /\ \A k \in 1..Len(last.batch) : last.batch[k].t = "dict")
    => C20_MalformedIsLocal

\* The operations of the sequential store that carry the store before them.
Operated == last.op \in {"create", "update", "delete", "migrate"}

\* Whether two values of one field are equal, either of them possibly null.
SameValue(x, y) ==
    IF x = None \/ y = None THEN (x = None) <=> (y = None) ELSE x = y

TimeFields == {"created_at", "updated_at"}

\* Whether documents a and b differ in some field.
Differ(a, b) ==
    \/ DOMAIN a # DOMAIN b
    \/ \E f \in (DOMAIN a) \cap TimeFields : a[f] # b[f]
    \/ \E f \in (DOMAIN a) \ TimeFields : ~SameValue(a[f], b[f])

\* C21: from its first write until it is deleted a record's created_at never
\* changes, across updates and migration runs in either mode; every
\* operation that mutates the record sets updated_at to the time of the
\* operation, so updated_at never decreases and is never earlier than
\* created_at.
C21_Timestamps ==
    /\ Operated =>
           \A i \in (DOMAIN contacts) \cap (DOMAIN last.before) :
               /\ contacts[i].created_at = last.before[i].created_at
               /\ contacts[i].updated_at >= last.before[i].updated_at
               /\ Differ(contacts[i], last.before[i]) => contacts[i].updated_at = last.at
    /\ Operated =>
           \A i \in (DOMAIN contacts) \ (DOMAIN last.before) :
               contacts[i].created_at = last.at /\ contacts[i].updated_at = last.at
    /\ \A i \in DOMAIN contacts : contacts[i].updated_at >= contacts[i].created_at

C21_Witness ==
    /\ last.op = "migrate"
    /\ ~last.skip
    /\ \E i \in (DOMAIN contacts) \cap (DOMAIN last.before) :
           /\ Differ(contacts[i], last.before[i])
           /\ contacts[i].created_at < contacts[i].updated_at
           /\ last.before[i].updated_at < contacts[i].updated_at

\* The optional scalar fields of the data model.
ScalarFields ==
    {"extension", "company", "department", "designation", "mobile",
     "landline", "email", "website"}

\* C22: in every stored record reachable through create, update and
\* migration, each optional scalar field is absent (missing or null) or a
\* non-empty string: an empty string is never stored.
C22_NoEmptyScalar ==
    \A i \in DOMAIN contacts :
        \A f \in ScalarFields \cap DOMAIN contacts[i] : contacts[i][f] # <<>>

\* The same statement for the records a migration run writes.
C22_NoEmptyScalarMigrated ==
    last.op = "migrate" =>
        \A i \in (DOMAIN contacts) \ (DOMAIN last.before) :
            \A f \in ScalarFields \cap DOMAIN contacts[i] : contacts[i][f] # <<>>

\* C23: over any sequence of create and delete calls, an id returned by a
\* successful create is never returned again by a later create, also after
\* the record that held it has been deleted.
C23_IdNeverReused ==
    (last.op \in {"create", "delete"} /\ last.migrations = 0) =>
        \A m, n \in 1..Len(last.issued) :
            last.issued[m] = last.issued[n] => m = n

\* The same statement for the ids of the records still stored.
C23_IdNotSharedWithStored ==
    (last.op = "create" /\ last.result = "ok") =>
        last.id \notin DOMAIN last.before

----------------------------------------------------------------------------
(* The store served concurrently, deletes among the requests *)

InitConcDelete ==
    /\ contacts \in {<<>>, Migrated(<<La>>, 0)}
    /\ now = 1
    /\ last = [op |-> "log", started |-> 0, created |-> <<>>,
               outcomes |-> {}, altered |-> FALSE, deleted |-> {}]
    /\ pc = [p \in Procs |-> "idle"]
    /\ loc = [p \in Procs |-> Idle]

\* delete_contact(contact_id): its one store call,
\* await contacts.delete_one({"_id": contact_id}), and its return.
DeleteConc(p, i) ==
    /\ pc[p] = "idle"
    /\ last.started < MaxRequests
    /\ contacts' = delete_one(contacts, i)
    /\ last' = [last EXCEPT
                  !.started = @ + 1,
                  !.outcomes = @ \cup {<<"delete", IF DeletedCount(contacts, i) > 0
                                                   THEN "ok" ELSE "NotFound">>},
                  !.deleted = IF DeletedCount(contacts, i) > 0
                              THEN @ \cup {i} ELSE @]
    /\ UNCHANGED <<now, pc, loc>>

NextConcDelete ==
    \/ NextConc
    \/ \E p \in Procs, i \in (DOMAIN contacts) \cup {AbsentId} : DeleteConc(p, i)

SpecConcDelete == InitConcDelete /\ [][NextConcDelete]_vars

\* C24: under any interleaving of the steps of update(id, partial) with a
\* concurrent delete(id), update returns the refreshed Contact or NotFound
\* (or rejects a duplicate email) and fails in no other way, and it never
\* re-creates the deleted record: where no create succeeded, a deleted id
\* is not stored again.
C24_UpdateVsDelete ==
    /\ \A o \in last.outcomes :
           o[1] = "update" => o[2] \in {"ok", "NotFound", "DuplicateEmail"}
    /\ last.created = <<>> => \A i \in last.deleted : i \notin DOMAIN contacts

\* The same statement without the failure of the re-read.
C24_UpdateNeverRecreates ==
    last.created = <<>> => \A i \in last.deleted : i \notin DOMAIN contacts

\* Sequentially, update of an absent id returns NotFound and leaves the
\* store unchanged.
C24_UpdateAbsentSequential ==
    (last.op = "update" /\ last.id \notin DOMAIN last.before) =>
        /\ last.result = "NotFound"
        /\ last.returned = None
        /\ DOMAIN contacts = DOMAIN last.before
        /\ \A i \in DOMAIN contacts : ~Differ(contacts[i], last.before[i])

\* Whether the last operation was a create on a store whose greatest id, in
\* the order of the store, cannot be parsed as an integer, the email check
\* having let it through.
CreateOnUnparsableMax ==
    /\ last.op = "create"
    /\ DOMAIN last.before # {}
    /\ ~IsInt(LastId(last.before))
    /\ last.result # "DuplicateEmail"

\* C25: when the greatest stored id cannot be parsed as an integer, nextId
\* does not fail and returns count(all) + 1 zero-padded to 4 digits; the
\* create then succeeds under that id or, the id being taken, fails without
\* modifying any stored record.
C25_Fallback ==
    CreateOnUnparsableMax =>
        /\ last.id = ZeroPad(Decimal(Cardinality(DOMAIN last.before) + 1), 4)
        /\ IF last.id \in DOMAIN last.before
           THEN /\ last.result = "DuplicateKeyError"
                /\ DOMAIN contacts = DOMAIN last.before
                /\ \A i \in DOMAIN contacts : ~Differ(contacts[i], last.before[i])
           ELSE /\ last.result = "ok"
                /\ DOMAIN contacts = (DOMAIN last.before) \cup {last.id}
                /\ \A i \in DOMAIN last.before :
                       ~Differ(contacts[i], last.before[i])

C25_Witness ==
    /\ CreateOnUnparsableMax
    /\ last.result = "ok"
    /\ last.id = <<"0", "0", "0", "2">>
    /\ <<"a">> \in DOMAIN last.before

C25_WitnessTaken ==
    /\ CreateOnUnparsableMax
    /\ last.result = "DuplicateKeyError"

\* C26: every record that create, update or a migration run leaves in the
\* store can be read back as a Contact: the stored record satisfies the
\* Contact schema, so get(id) and a list page holding it do not fail.
C26_StoredReadable ==
    \A i \in DOMAIN contacts : ContactValidates(contacts[i])

\* The same statement for the records a create or a migration run writes.
C26_WrittenReadable ==
    last.op \in {"create", "migrate"} =>
        \A i \in (DOMAIN contacts) \ (DOMAIN last.before) :
            ContactValidates(contacts[i])

-----------------------------------------------------------------------------
(* The frame of a migration run *)

\* The fields of the data model a normalized record does not carry.
NotCarried == {"is_ifa", "is_third_party", "profile_picture"}

\* The positions of the batch of the last run whose entry is an object.
Objects == {k \in 1..Len(last.batch) : last.batch[k].t = "dict"}

\* Whether stored document d is stored document b overwritten at time t by
\* the normalized record n: every field n carries but created_at has n's
\* value, every other field of b, created_at among them, its value in b.
Overwritten(d, b, n, t) ==
    /\ DOMAIN d = (DOMAIN b) \cup (DOMAIN n)
    /\ d.created_at = b.created_at
    /\ d.updated_at = t
    /\ \A f \in (DOMAIN n) \ TimeFields : SameValue(d[f], n[f])
    /\ \A f \in (DOMAIN b) \ (DOMAIN n) : SameValue(d[f], b[f])

\* C27: a migration run, in either mode and whatever the store answers,
\* deletes no record and changes no record whose id does not occur in the
\* batch; a record it changes is the stored one overwritten by a normalized
\* record of the batch with its id, keeping created_at and the fields the
\* normalized record does not carry (is_ifa, is_third_party,
\* profile_picture); and a run without skip_duplicates whose writes the
\* store all applies so overwrites every stored record whose id a normalized
\* record of the batch has, expose included.
C27_MigrationFrame ==
    last.op = "migrate" =>
        /\ DOMAIN last.before \subseteq DOMAIN contacts
        /\ \A i \in DOMAIN last.before :
               /\ i \notin {BatchId(k) : k \in Objects}
                      => ~Differ(contacts[i], last.before[i])
               /\ Differ(contacts[i], last.before[i]) =>
                      /\ ~last.skip
                      /\ NotCarried \cap DOMAIN last.before[i]
                             \subseteq DOMAIN contacts[i]
                      /\ \A f \in NotCarried \cap DOMAIN last.before[i] :
                             SameValue(contacts[i][f], last.before[i][f])
                      /\ \E k \in Normalizable :
                             /\ TransformId(last.batch[k]) = i
                             /\ Overwritten(contacts[i], last.before[i],
                                            transform_contact(last.batch[k], last.at),
                                            last.at)
               /\ (~last.skip /\ last.result = "ok" /\ last.fault = NoFault
                   /\ i \in {TransformId(last.batch[k]) : k \in Normalizable})
                      => /\ Differ(contacts[i], last.before[i])
                         /\ contacts[i].expose = PyTrue

\* A run without skip_duplicates overwrote a record that create and update
\* had left hidden and flagged: the flag is kept, expose is overwritten.
C27_Witness ==
    /\ last.op = "migrate"
    /\ ~last.skip
    /\ \E i \in DOMAIN last.before :
           /\ "is_ifa" \in DOMAIN last.before[i]
           /\ last.before[i].is_ifa = PyTrue
           /\ last.before[i].expose = PyFalse
           /\ contacts[i].is_ifa = PyTrue
           /\ contacts[i].expose = PyTrue
           /\ contacts[i].updated_at = last.at
           /\ contacts[i].created_at < last.at

====
